---- MODULE Spec2Model ----
(***************************************************************************)
(* The TLS trust-anchor store of libs/tls: the rkyv record codec, the      *)
(* save/get/del/del_all operations over the "tls.trusted" dictionary, the  *)
(* pddb_key derivation and the check_trust workflow.                       *)
(*                                                                         *)
(* Text is modelled as its UTF-8 bytes (a sequence of numbers 0..255), so  *)
(* a key, a serial text and a derived key are byte sequences.  An Option   *)
(* is a sequence of length 0 (None) or 1 (Some).                           *)
(***************************************************************************)
EXTENDS Integers, Sequences, FiniteSets, TLC

\* ------------------------------------------------------------------ bounds

\* The longest filler (in characters) of a subject handed to pddb_key.
MaxFill == 100

\* The longest list of candidate certificates handed to check_trust.
MaxCerts == 2

\* A write that fails part-way leaves the first 0..MaxPartial bytes behind.
MaxPartial == 1

\* ------------------------------------------------------------- byte helpers

Min(a, b) == IF a < b THEN a ELSE b

Take(s, n) == SubSeq(s, 1, Min(n, Len(s)))

Drop(s, n) == SubSeq(s, n + 1, Len(s))

\* Slice(s, a, b): the bytes at 0-based offsets a..b-1
Slice(s, a, b) == SubSeq(s, a + 1, b)

Zeros(n) == [i \in 1..n |-> 0]

\* str::starts_with
starts_with(s, p) == Len(s) >= Len(p) /\ SubSeq(s, 1, Len(p)) = p

\* "__version"
CURRENT_VERSION_KEY == <<95, 95, 118, 101, 114, 115, 105, 111, 110>>

\* a guard that rejects only the version key itself
ReservedPrefixVersionOnly == CURRENT_VERSION_KEY

\* the prefix save_cert rejects: "__"
ReservedPrefix == <<95, 95>>

\* ------------------------------------------------------------ record codec

\* Option helpers
None == <<>>
Some(x) == <<x>>

\* little-endian u32 of 0 <= n < 2^31
LE32(n) == <<n % 256, (n \div 256) % 256, (n \div 65536) % 256, (n \div 16777216) % 256>>

\* little-endian two's complement i32 of d
I32LE(d) == IF d >= 0 THEN LE32(d) ELSE [i \in 1..4 |-> 255 - LE32((0 - d) - 1)[i]]

\* the offset written low byte first
to_be_bytes_swapped(pos) == <<pos % 256, (pos \div 256) % 256>>

\* u16::to_be_bytes
to_be_bytes(pos) == <<(pos \div 256) % 256, pos % 256>>

\* u16::from_be_bytes
from_be_bytes(hi, lo) == hi * 256 + lo

AlignUp(n, a) == ((n + a - 1) \div a) * a

\* Size of the archived root: two ArchivedVec (RelPtr i32 + u32 len) and an
\* ArchivedOption<ArchivedVec> (u8 tag, 3 bytes padding, RelPtr, len).
RootSize == 8 + 8 + 12

\* position at which a byte slice is written: 0 for an empty slice
SlicePos(bytes, at) == IF Len(bytes) = 0 THEN 0 ELSE at

\* An ArchivedVec written at position `field` pointing at `target`
ArchivedVec(field, target, n) == I32LE(target - field) \o LE32(n)

\* Serializer::serialize_value: the dependencies (the three byte vectors, in
\* field order), padding to the root's alignment, then the root.  Returns the
\* buffer and the root position.
serialize_value(ta) ==
  LET ncBytes == IF ta.name_constraints = None THEN <<>> ELSE ta.name_constraints[1]
      pSubj == SlicePos(ta.subject, 0)
      pSpki == SlicePos(ta.spki, Len(ta.subject))
      pNc   == SlicePos(ncBytes, Len(ta.subject) + Len(ta.spki))
      data  == ta.subject \o ta.spki \o ncBytes
      pos   == AlignUp(Len(data), 4)
      root  == ArchivedVec(pos, pSubj, Len(ta.subject))
               \o ArchivedVec(pos + 8, pSpki, Len(ta.spki))
               \o (IF ta.name_constraints = None
                     THEN Zeros(12)
                     ELSE <<1, 0, 0, 0>> \o ArchivedVec(pos + 20, pNc, Len(ncBytes)))
  IN [buf |-> data \o Zeros(pos - Len(data)) \o root, pos |-> pos]

\* Reading an ArchivedVec at 0-based offset `field` of `bytes`: the bytes it
\* points at, or "ub" when the pointer or the length leaves the buffer.
ReadVec(bytes, field) ==
  LET b(i) == bytes[field + i + 1]
      neg  == b(3) >= 128
      off  == IF neg
                THEN 0 - ((255 - b(0)) + (255 - b(1)) * 256 + (255 - b(2)) * 65536
                          + (255 - b(3)) * 16777216) - 1
                ELSE b(0) + b(1) * 256 + b(2) * 65536 + b(3) * 16777216
      big  == b(7) >= 128
      n    == IF big THEN 0 ELSE b(4) + b(5) * 256 + b(6) * 65536 + b(7) * 16777216
      tgt  == field + off
  IN IF big THEN [ub |-> TRUE, bytes |-> <<>>]
     ELSE IF n = 0 THEN [ub |-> FALSE, bytes |-> <<>>]
     ELSE IF tgt < 0 \/ tgt + n > Len(bytes) THEN [ub |-> TRUE, bytes |-> <<>>]
     ELSE [ub |-> FALSE, bytes |-> Slice(bytes, tgt, tgt + n)]

NoAnchor == [subject |-> <<>>, spki |-> <<>>, name_constraints |-> None]

\* rkyv::archived_value at `pos` followed by deserialize.  The access is
\* unchecked: `ub` is TRUE when it reads outside the buffer, at a misaligned
\* root, or an option tag that is neither None nor Some.
archived_value(bytes, pos) ==
  IF pos % 4 # 0 \/ pos + RootSize > Len(bytes) THEN [ub |-> TRUE, ta |-> NoAnchor]
  ELSE LET subj == ReadVec(bytes, pos)
           spki == ReadVec(bytes, pos + 8)
           tag  == bytes[pos + 16 + 1]
           nc   == IF tag = 1 THEN ReadVec(bytes, pos + 20) ELSE [ub |-> tag # 0, bytes |-> <<>>]
       IN IF subj.ub \/ spki.ub \/ nc.ub THEN [ub |-> TRUE, ta |-> NoAnchor]
          ELSE [ub |-> FALSE,
                ta |-> [subject |-> subj.bytes, spki |-> spki.bytes,
                        name_constraints |-> IF tag = 1 THEN Some(nc.bytes) ELSE None]]

\* ------------------------------------------------------------------- state

VARIABLES
  dict,    \* whether the "tls.trusted" dictionary exists
  files,   \* the entries of the dictionary: key -> contents (bytes)
  last,    \* the most recent call: its arguments, its result and what held before it
  saved,   \* the keys saved since the dictionary was last empty, while nothing else wrote
  pair,    \* the two anchors handed to pddb_key, and the keys derived
  wf,      \* the most recent run of check_trust
  hist     \* per key, the record a successful history of calls leaves under it

vars == <<dict, files, last, saved, pair, wf, hist>>

\* ---------------------------------------------------------- storage helpers
\*
\* The storage collaborator is std::fs over the dictionary: metadata and
\* create_dir_all succeed, File::open and remove_file fail only for an entry
\* that is absent, and the write of an entry (File::create, write_all) may
\* fail in any call.  SpecFault lifts this for del_all_cert: there read_dir,
\* each entry it yields and each remove_file may fail.

Store == [dict |-> dict, files |-> files]

EmptyFiles == [k \in {} |-> <<>>]

\* a write that leaves an existing entry as it is
Put_keep(f, k, v) == [x \in (DOMAIN f) \cup {k} |-> IF x \in DOMAIN f THEN f[x] ELSE v]

\* File::create + write_all: the entry's whole contents are replaced
Put(f, k, v) == [x \in (DOMAIN f) \cup {k} |-> IF x = k THEN v ELSE f[x]]

\* fs::remove_file
Remove(f, k) == [x \in (DOMAIN f) \ {k} |-> f[x]]

\* Outcomes of the write of an entry: it succeeds, File::create fails, or
\* write_all fails after create truncated the entry and n bytes were written.
IoOutcomes ==
  {[fault |-> "none", n |-> 0], [fault |-> "create", n |-> 0]}
    \cup {[fault |-> "write", n |-> i] : i \in 0..MaxPartial}

IoOk == [fault |-> "none", n |-> 0]

\* ---------------------------------------------------------- TrustStore ops

\* a lookup that leaves a missing dictionary missing
create_dir_all_skipped(st) == st

\* `if !metadata(..).is_ok() { create_dir_all(..)? }`: the dictionary exists
\* afterwards, its entries are untouched
create_dir_all(st) == [st EXCEPT !.dict = TRUE]

\* save_cert(key, ta): io is the outcome of the entry's write
save_cert(st, key, ta, io) ==
  IF starts_with(key, ReservedPrefix)
    THEN [st |-> st, ret |-> "PermissionDenied"]
    ELSE LET st1 == create_dir_all(st)
             ser == serialize_value(ta)
         IN IF ser.pos > 65535
              THEN [st |-> st1, ret |-> "panic"]
              ELSE LET buf == ser.buf \o to_be_bytes(ser.pos)
                   IN IF io.fault = "create"
                        THEN [st |-> st1, ret |-> "IoError"]
                        ELSE IF io.fault = "write"
                          THEN [st |-> [st1 EXCEPT !.files = Put(@, key, Take(buf, io.n))],
                                ret |-> "IoError"]
                          ELSE [st |-> [st1 EXCEPT !.files = Put(@, key, buf)],
                                ret |-> "Ok"]

\* What an unchecked out-of-bounds archive access may produce: the process
\* dies, or the read yields some record.
UbOutcomes(anchors) ==
  {[abort |-> TRUE, ta |-> NoAnchor]} \cup {[abort |-> FALSE, ta |-> g] : g \in anchors}

\* get_cert(key): ub is the outcome taken when the archive access is undefined
get_cert(st, key, ub) ==
  LET st1 == create_dir_all(st)
  IN IF key \notin DOMAIN st.files
       THEN [st |-> st1, ret |-> "Ok", val |-> None]
       ELSE LET bytes == st.files[key]
                len   == Len(bytes)
            IN IF len < 2
                 \* bytes[len - 2]: the index is out of range
                 THEN [st |-> st1, ret |-> "panic", val |-> None]
                 ELSE LET pos == from_be_bytes(bytes[len - 1], bytes[len])
                          a   == archived_value(bytes, pos)
                      IN IF a.ub
                           THEN IF ub.abort
                                  THEN [st |-> st1, ret |-> "abort", val |-> None]
                                  ELSE [st |-> st1, ret |-> "Ok", val |-> Some(ub.ta)]
                           ELSE [st |-> st1, ret |-> "Ok", val |-> Some(a.ta)]

\* del_cert that reports a missing entry as an error
del_cert_strict(st, key) ==
  IF key \in DOMAIN st.files
    THEN [st |-> [st EXCEPT !.files = Remove(@, key)], ret |-> "Ok"]
    ELSE [st |-> st, ret |-> "IoError"]

\* del_cert(key): remove_file's result is only logged
del_cert(st, key) ==
  IF key \in DOMAIN st.files
    THEN [st |-> [st EXCEPT !.files = Remove(@, key)], ret |-> "Ok"]
    ELSE [st |-> st, ret |-> "Ok"]

\* The loop of del_all_cert over the entries read_dir yields
RECURSIVE RemoveEach(_, _, _)
RemoveEach(f, todo, count) ==
  IF todo = {} THEN [files |-> f, count |-> count]
  ELSE LET k == CHOOSE x \in todo : TRUE
       IN RemoveEach(Remove(f, k), todo \ {k}, count + 1)

\* del_all_cert that stops after the first entry
del_all_cert_first(st) ==
  IF st.dict /\ DOMAIN st.files # {}
    THEN LET k == CHOOSE x \in DOMAIN st.files : TRUE
         IN [st |-> [st EXCEPT !.files = Remove(@, k)], ret |-> "Ok", count |-> 1]
    ELSE [st |-> st, ret |-> "Ok", count |-> 0]

\* del_all_cert()
del_all_cert(st) ==
  IF st.dict
    THEN LET r == RemoveEach(st.files, DOMAIN st.files, 0)
         IN [st |-> [st EXCEPT !.files = r.files], ret |-> "Ok", count |-> r.count]
    ELSE [st |-> st, ret |-> "Ok", count |-> 0]

\* What read_dir yields and what each remove_file does: whether read_dir
\* itself succeeds, and per entry, in the order the iterator yields them, its
\* key, whether the iterator yields it as Ok and whether its removal succeeds.
NoDir == [open |-> TRUE, entries |-> <<>>]

\* a loop that counts every removal it attempts
RECURSIVE RemoveEachIo_attempts(_, _, _, _)
RemoveEachIo_attempts(f, entries, count, attempted) ==
  IF Len(entries) = 0
    THEN [files |-> f, ret |-> "Ok", count |-> count, attempted |-> attempted]
  ELSE LET e == entries[1]
       IN IF ~e.enum
            THEN [files |-> f, ret |-> "IoError", count |-> 0, attempted |-> attempted]
            ELSE RemoveEachIo_attempts(IF e.remove THEN Remove(f, e.key) ELSE f,
                                       Drop(entries, 1), count + 1,
                                       Append(attempted, e.key))

\* The loop of del_all_cert when storage calls may fail: `entry?` returns the
\* error at once; a failed remove_file is logged and the loop goes on.
RECURSIVE RemoveEachIo(_, _, _, _)
RemoveEachIo(f, entries, count, attempted) ==
  IF Len(entries) = 0
    THEN [files |-> f, ret |-> "Ok", count |-> count, attempted |-> attempted]
  ELSE LET e == entries[1]
       IN IF ~e.enum
            THEN [files |-> f, ret |-> "IoError", count |-> 0, attempted |-> attempted]
            ELSE IF e.remove
              THEN RemoveEachIo(Remove(f, e.key), Drop(entries, 1), count + 1,
                                Append(attempted, e.key))
              ELSE RemoveEachIo(f, Drop(entries, 1), count, Append(attempted, e.key))

\* del_all_cert() when storage calls may fail: dir is what read_dir and the
\* remove_file calls do
del_all_cert_io(st, dir) ==
  IF st.dict
    THEN IF ~dir.open
           THEN [st |-> st, ret |-> "IoError", count |-> 0, attempted |-> <<>>]
           ELSE LET r == RemoveEachIo(st.files, dir.entries, 0, <<>>)
                IN [st |-> [st EXCEPT !.files = r.files], ret |-> r.ret,
                    count |-> r.count, attempted |-> r.attempted]
    ELSE [st |-> st, ret |-> "Ok", count |-> 0, attempted |-> <<>>]

\* ------------------------------------------------- the store specification

\* "k1", "_k", "__" and "__version"
StoreKeys == {<<107, 49>>, <<95, 107>>, <<95, 95>>, CURRENT_VERSION_KEY}

StoreAnchors ==
  { [subject |-> <<>>, spki |-> <<1, 2, 3>>, name_constraints |-> None],
    [subject |-> <<48, 130>>, spki |-> <<1, 2, 3>>, name_constraints |-> Some(<<>>)],
    [subject |-> <<48, 130>>, spki |-> <<>>, name_constraints |-> Some(<<7>>)] }

NoCall ==
  [op |-> "none", key |-> <<>>, ta |-> NoAnchor, ret |-> "Ok", val |-> None,
   after |-> "other", hit |-> FALSE, nsaved |-> 0 - 1,
   dir |-> NoDir, before |-> EmptyFiles, attempted |-> <<>>, dictBefore |-> FALSE]

NoPair == [a |-> NoAnchor, b |-> NoAnchor, ka |-> None, kb |-> None]

NoRun ==
  [ran |-> FALSE, certs |-> <<>>, panic |-> FALSE, shown |-> None, uiErr |-> FALSE,
   sel |-> <<>>, attempts |-> <<>>, notes |-> <<>>, ret |-> 0]

\* What the call before a get(key) was, as far as the claims tell cases apart
After(key) ==
  IF last.op = "save" /\ last.ret = "Ok" /\ last.key = key THEN "save"
  ELSE IF last.op = "del" /\ last.key = key THEN (IF last.hit THEN "del_hit" ELSE "del_miss")
  ELSE IF last.op = "del_all" /\ last.ret = "Ok" THEN "del_all"
  ELSE "other"

\* The keys saved, each once, since the dictionary was last empty; clean is
\* FALSE once anything else has written an entry.
SavedAfter(op, key, ret, f) ==
  IF DOMAIN f = {} THEN [clean |-> TRUE, keys |-> {}]
  ELSE IF op = "save" /\ ret = "Ok" /\ saved.clean /\ key \notin saved.keys
    THEN [clean |-> TRUE, keys |-> saved.keys \cup {key}]
  ELSE IF f = files THEN saved
  ELSE [clean |-> FALSE, keys |-> {}]

\* No call made yet: every key is absent
NoHist == [ok |-> TRUE, latest |-> [k \in StoreKeys |-> None]]

\* The record each key holds after one more save, del or del_all, as long as
\* every one of them so far was successful: a save sets its key, a del clears
\* its key, a del_all clears every key.  ok is FALSE once one has failed.
HistAfter(op, key, ta, ret) ==
  IF ~hist.ok \/ ret # "Ok" THEN [ok |-> FALSE, latest |-> NoHist.latest]
  ELSE IF op = "save" THEN [hist EXCEPT !.latest[key] = Some(ta)]
  ELSE IF op = "del" THEN [hist EXCEPT !.latest[key] = None]
  ELSE NoHist

Init ==
  /\ dict = FALSE
  /\ files = EmptyFiles
  /\ last = NoCall
  /\ saved = [clean |-> TRUE, keys |-> {}]
  /\ pair = NoPair
  /\ wf = NoRun
  /\ hist = NoHist

Save(key, ta, io) ==
  \E r \in {save_cert(Store, key, ta, io)} :
     /\ dict' = r.st.dict
     /\ files' = r.st.files
     /\ last' = [NoCall EXCEPT !.op = "save", !.key = key, !.ta = ta, !.ret = r.ret,
                               !.before = files]
     /\ saved' = SavedAfter("save", key, r.ret, r.st.files)
     /\ hist' = HistAfter("save", key, ta, r.ret)
     /\ UNCHANGED <<pair, wf>>

Get(key, ub) ==
  \E r \in {get_cert(Store, key, ub)} :
     /\ dict' = r.st.dict
     /\ files' = r.st.files
     /\ last' = [NoCall EXCEPT !.op = "get", !.key = key, !.ret = r.ret, !.val = r.val,
                               !.after = After(key),
                               !.ta = IF After(key) = "save" THEN last.ta ELSE NoAnchor,
                               !.hit = key \in DOMAIN files, !.dictBefore = dict]
     /\ saved' = SavedAfter("get", key, r.ret, r.st.files)
     /\ UNCHANGED <<pair, wf, hist>>

Del(key) ==
  \E r \in {del_cert(Store, key)} :
     /\ dict' = r.st.dict
     /\ files' = r.st.files
     /\ last' = [NoCall EXCEPT !.op = "del", !.key = key, !.ret = r.ret,
                               !.hit = key \in DOMAIN files]
     /\ saved' = SavedAfter("del", key, r.ret, r.st.files)
     /\ hist' = HistAfter("del", key, NoAnchor, r.ret)
     /\ UNCHANGED <<pair, wf>>

DelAll ==
  \E r \in {del_all_cert(Store)} :
     /\ dict' = r.st.dict
     /\ files' = r.st.files
     /\ last' = [NoCall EXCEPT !.op = "del_all", !.ret = r.ret, !.val = Some(r.count),
                               !.nsaved = IF saved.clean THEN Cardinality(saved.keys)
                                          ELSE 0 - 1]
     /\ saved' = SavedAfter("del_all", <<>>, r.ret, r.st.files)
     /\ hist' = HistAfter("del_all", <<>>, NoAnchor, r.ret)
     /\ UNCHANGED <<pair, wf>>

Next ==
  \/ \E key \in StoreKeys, ta \in StoreAnchors, io \in IoOutcomes : Save(key, ta, io)
  \/ \E key \in StoreKeys, ub \in UbOutcomes(StoreAnchors) : Get(key, ub)
  \/ \E key \in StoreKeys : Del(key)
  \/ DelAll

Spec == Init /\ [][Next]_vars

\* ------------------------------------------------------ claims on the store

\* C1: a successful save(k, r) with k not beginning with "__", followed
\* immediately by get(k), returns a present record equal to r in subject, spki
\* and name_constraints.
C1_RoundTrip ==
  (last.op = "get" /\ last.after = "save")
    => (last.ret = "Ok" /\ last.val = Some(last.ta))

C1_Witness ==
  /\ last.op = "get" /\ last.after = "save"
  /\ last.val = Some(last.ta)
  /\ last.ta.subject # <<>> /\ last.ta.name_constraints = Some(<<7>>)

BeginsWithUnderscores(key) == Len(key) >= 2 /\ key[1] = 95 /\ key[2] = 95

\* C2: save(k, r) with k beginning with "__" returns the ReservedKey error
\* (PermissionDenied) and does no I/O: the entries and the existence of the
\* dictionary are the same after the call as before it.
C2_ReservedKeyNoEffect ==
  [][(last'.op = "save" /\ BeginsWithUnderscores(last'.key))
       => (last'.ret = "PermissionDenied" /\ dict' = dict /\ files' = files)]_vars

C2_Witness ==
  /\ last.op = "save" /\ last.key = <<95, 95>>
  /\ last.ret = "PermissionDenied"
  /\ ~dict

\* C3: del(k) returns success whether or not an entry exists under k, and a
\* get(k) that follows a del(k) of a present key returns absent.
C3_DelThenAbsent ==
  /\ last.op = "del" => last.ret = "Ok"
  /\ (last.op = "get" /\ last.after = "del_hit") => (last.ret = "Ok" /\ last.val = None)

C3_Witness ==
  last.op = "get" /\ last.after = "del_hit" /\ last.ret = "Ok" /\ last.val = None

\* C4: from an empty dictionary, after N records are saved under N distinct
\* keys, del_all() returns N and leaves no entry, so a following get(k) is
\* absent.
C4_DelAllCount ==
  /\ (last.op = "del_all" /\ last.nsaved >= 0)
       => (last.ret = "Ok" /\ last.val = Some(last.nsaved) /\ DOMAIN files = {})
  /\ (last.op = "get" /\ last.after = "del_all")
       => (last.ret = "Ok" /\ last.val = None)

C4_Witness ==
  last.op = "del_all" /\ last.nsaved = 2 /\ last.val = Some(2) /\ DOMAIN files = {}

\* Contents that do not decode: too short for the trailing offset, or an
\* offset at which no record lies within the buffer
Undecodable(bytes) ==
  \/ Len(bytes) < 2
  \/ archived_value(bytes, from_be_bytes(bytes[Len(bytes) - 1], bytes[Len(bytes)])).ub

\* C10: get(k) of an entry whose bytes do not decode to a record (corrupted,
\* or shorter than the two-byte trailing offset) returns absent, without an
\* error and without aborting.
C10_UndecodableIsAbsent ==
  (last.op = "get" /\ last.key \in DOMAIN files /\ Undecodable(files[last.key]))
    => (last.ret = "Ok" /\ last.val = None)

\* what get(k) returns from the store st, whatever an undefined read would do
GetResults(st, k) ==
  {[ret |-> g.ret, val |-> g.val] : g \in {get_cert(st, k, ub) : ub \in UbOutcomes(StoreAnchors)}}

\* C13: after any sequence of successful save, del and del_all calls, get(k)
\* returns exactly the record of the most recent save(k, .) not followed by
\* del(k) or del_all(), and absent if there is none; and a successful save
\* under k leaves what get(j) returns unchanged for every other key j.
C13_LastSaveWins ==
  /\ [](hist.ok => \A k \in StoreKeys :
                     GetResults(Store, k) = {[ret |-> "Ok", val |-> hist.latest[k]]})
  /\ [][(last'.op = "save" /\ last'.ret = "Ok")
         => \A j \in StoreKeys \ {last'.key} :
              GetResults([dict |-> dict', files |-> files'], j) = GetResults(Store, j)]_vars

\* a key saved twice with different records while another key holds a record
C13_Witness ==
  /\ hist.ok
  /\ last.op = "save" /\ last.ret = "Ok"
  /\ last.key = <<107, 49>>
  /\ hist.latest[<<107, 49>>] = Some(last.ta)
  /\ hist.latest[<<95, 107>>] # None
  /\ hist.latest[<<95, 107>>] # Some(last.ta)
  /\ <<107, 49>> \in DOMAIN last.before
  /\ last.before[<<107, 49>>] # files[<<107, 49>>]

\* C17: get(k) called while the dictionary does not exist creates it and
\* returns absent; a get never creates, changes or removes an entry, so the
\* only change a get can make is the creation of an empty dictionary.
C17_GetOnlyCreatesDict ==
  [][last'.op = "get"
       => /\ files' = files
          /\ dict'
          /\ ~dict => (files' = EmptyFiles /\ last'.ret = "Ok" /\ last'.val = None)]_vars

C17_Witness ==
  /\ last.op = "get" /\ ~last.dictBefore
  /\ dict /\ files = EmptyFiles
  /\ last.ret = "Ok" /\ last.val = None

\* ------------------------------------------ del_all when storage calls fail

\* "k1", "k2" and "_k"
FaultKeys == {<<107, 49>>, <<107, 50>>, <<95, 107>>}

\* The stores a del_all starts from: no dictionary, or a dictionary holding
\* what save_cert has written under some of the keys
FaultStores ==
  LET empty == [dict |-> FALSE, files |-> EmptyFiles]
      ta    == [subject |-> <<48, 130>>, spki |-> <<1, 2, 3>>, name_constraints |-> None]
  IN {empty}
       \cup {[dict |-> TRUE,
              files |-> [k \in ks |-> save_cert(empty, k, ta, IoOk).st.files[k]]] :
              ks \in SUBSET FaultKeys}

\* The orders in which read_dir may yield the entries
Orders(keys) ==
  {o \in [1..Cardinality(keys) -> keys] : \A i, j \in DOMAIN o : i # j => o[i] # o[j]}

\* What read_dir and the removals may do on a dictionary holding `keys`
DirOutcomes(keys) ==
  {[open |-> op, entries |-> [i \in DOMAIN o |-> [key |-> o[i], enum |-> en[i],
                                                   remove |-> rm[i]]]] :
     op \in BOOLEAN, o \in Orders(keys),
     en \in [1..Cardinality(keys) -> BOOLEAN], rm \in [1..Cardinality(keys) -> BOOLEAN]}

InitFault ==
  /\ \E st \in FaultStores : dict = st.dict /\ files = st.files
  /\ last = NoCall
  /\ saved = [clean |-> TRUE, keys |-> {}]
  /\ pair = NoPair
  /\ wf = NoRun
  /\ hist = NoHist

DelAllFault(dir) ==
  \E r \in {del_all_cert_io(Store, dir)} :
     /\ dict' = r.st.dict
     /\ files' = r.st.files
     /\ last' = [NoCall EXCEPT !.op = "del_all", !.ret = r.ret, !.val = Some(r.count),
                               !.dir = dir, !.before = files, !.attempted = r.attempted,
                               !.dictBefore = dict]
     /\ UNCHANGED <<saved, pair, wf, hist>>

NextFault == \E dir \in DirOutcomes(DOMAIN files) : DelAllFault(dir)

SpecFault == InitFault /\ [][NextFault]_vars

\* the keys of the call's entries, in the order read_dir yielded them
DirKeys == [i \in DOMAIN last.dir.entries |-> last.dir.entries[i].key]

\* the position of the first entry whose enumeration failed, or 0
FirstEnumFailure ==
  LET bad == {i \in DOMAIN last.dir.entries : ~last.dir.entries[i].enum}
  IN IF bad = {} THEN 0 ELSE CHOOSE i \in bad : \A j \in bad : i <= j

\* the del_all just made read the dictionary, and the enumeration or the
\* removal of some entry failed
SomeFailure ==
  /\ last.op = "del_all" /\ last.dictBefore /\ last.dir.open
  /\ \E i \in DOMAIN last.dir.entries :
       ~last.dir.entries[i].enum \/ ~last.dir.entries[i].remove

\* the entries the call left removed
Removed == (DOMAIN last.before) \ (DOMAIN files)

\* C11 as stated: when the deletion or enumeration of some keys fails during
\* del_all(), del_all still attempts every remaining key, returns success, and
\* the count it returns is the number of entries it actually removed.
C11_FailuresTolerated ==
  SomeFailure
    => /\ last.ret = "Ok"
       /\ last.attempted = DirKeys
       /\ last.val = Some(Cardinality(Removed))

\* C11 amended: when only deletions fail, del_all attempts every key in the
\* order enumerated, returns success with the number of entries it actually
\* removed, and exactly the entries whose deletion failed remain; when the
\* enumeration fails, del_all returns that error at once, no later key is
\* attempted, and the entries removed before the failure stay removed.
C11_DeleteFailuresTolerated ==
  SomeFailure
    => IF FirstEnumFailure = 0
         THEN /\ last.ret = "Ok"
              /\ last.attempted = DirKeys
              /\ last.val = Some(Cardinality(Removed))
              /\ DOMAIN files = {last.dir.entries[i].key : i \in
                                   {j \in DOMAIN last.dir.entries : ~last.dir.entries[j].remove}}
              /\ \A k \in DOMAIN files : files[k] = last.before[k]
         ELSE /\ last.ret = "IoError"
              /\ last.attempted = SubSeq(DirKeys, 1, FirstEnumFailure - 1)
              /\ Removed = {last.attempted[i] : i \in
                              {j \in DOMAIN last.attempted : last.dir.entries[j].remove}}
              /\ \A k \in DOMAIN files : files[k] = last.before[k]

\* three entries, the removal of the second failed, the others were removed
C11_Witness ==
  /\ SomeFailure
  /\ FirstEnumFailure = 0
  /\ Len(last.dir.entries) = 3
  /\ ~last.dir.entries[2].remove
  /\ last.val = Some(2)
  /\ Cardinality(DOMAIN files) = 1

\* ---------------------------------------------------------------- pddb_key

\* The number of continuation bytes a UTF-8 lead byte announces; -1 for a
\* continuation byte, -2 for a byte that occurs in no UTF-8 text
utf8_need(c) ==
  IF c < 128 THEN 0
  ELSE IF c <= 191 THEN 0 - 1
  ELSE IF c >= 194 /\ c <= 223 THEN 1
  ELSE IF c >= 224 /\ c <= 239 THEN 2
  ELSE IF c >= 240 /\ c <= 244 THEN 3
  ELSE 0 - 2

\* The range of the byte after lead byte c (E0, ED, F0 and F4 narrow it)
utf8_second_ok(c, d) ==
  /\ c = 224 => d >= 160
  /\ c = 237 => d <= 159
  /\ c = 240 => d >= 144
  /\ c = 244 => d <= 143

\* str::from_utf8: whether the bytes are well-formed UTF-8: every lead byte is
\* followed by its continuation bytes and every continuation byte follows one
valid_utf8(b) ==
  \A i \in 1..Len(b) :
    LET n == utf8_need(b[i])
    IN /\ n # 0 - 2
       /\ n > 0 => /\ i + n <= Len(b)
                   /\ \A j \in 1..n : utf8_need(b[i + j]) = 0 - 1
                   /\ utf8_second_ok(b[i], b[i + 1])
       /\ n = 0 - 1 => \E r \in 1..3 : /\ i - r >= 1
                                       /\ utf8_need(b[i - r]) >= r
                                       /\ \A q \in 1..(r - 1) : utf8_need(b[i - q]) = 0 - 1

\* str::find: the 0-based offset of the first occurrence of pat, or -1
find(s, pat) ==
  LET hits == {i \in 0..(Len(s) - Len(pat)) : Slice(s, i, i + Len(pat)) = pat}
  IN IF hits = {} THEN 0 - 1 ELSE CHOOSE i \in hits : \A j \in hits : i <= j

\* str::is_char_boundary
is_char_boundary(s, i) ==
  i = 0 \/ i = Len(s) \/ (i < Len(s) /\ (s[i + 1] < 128 \/ s[i + 1] >= 192))

\* "CN=", "OU=", ","
StrCN == <<67, 78, 61>>
StrOU == <<79, 85, 61>>
StrComma == <<44>>

\* the subject bytes taken as text whether or not they are UTF-8
subject_text_raw(ta) == ta.subject

\* The subject as text: the empty string when the bytes are not UTF-8
subject_text(ta) == IF valid_utf8(ta.subject) THEN ta.subject ELSE <<>>

\* Where the label's marker starts: the first "CN=", else the first "OU=",
\* else -1
marker(ta) ==
  LET cn == find(subject_text(ta), StrCN)
  IN IF cn >= 0 THEN cn ELSE find(subject_text(ta), StrOU)

\* The label part of the key: the text after the marker up to the next comma,
\* or the whole subject text when there is no marker
label(ta) ==
  LET subject == subject_text(ta)
      begin   == marker(ta)
  IN IF begin >= 0
       THEN LET b == begin + 3
                e == find(Drop(subject, b), StrComma)
                end == IF e >= 0 THEN b + e ELSE Len(subject)
            IN Slice(subject, b, end)
       ELSE subject

HexDigit(d) == IF d < 10 THEN 48 + d ELSE 55 + d

\* format!("{:X}", b): upper-case hexadecimal, no padding
UpperHex(b) == IF b < 16 THEN <<HexDigit(b)>> ELSE <<HexDigit(b \div 16), HexDigit(b % 16)>>

\* " {:X}{:X}{:X}{:X}" of k[6], k[7], k[8], k[9]
suffix(k) == <<32>> \o UpperHex(k[7]) \o UpperHex(k[8]) \o UpperHex(k[9]) \o UpperHex(k[10])

\* mirror of pddb::KEY_NAME_LEN
KEY_NAME_LEN == 127 - 8 - 8 - 8 - 4 - 4

\* OwnedTrustAnchor::pddb_key: the key, or a panic when spki has no byte 9 or
\* when the cut falls inside a character
pddb_key(ta) ==
  IF Len(ta.spki) < 10 THEN [panic |-> TRUE, key |-> <<>>]
  ELSE LET full == label(ta) \o suffix(ta.spki)
           cut  == Min(Len(full), KEY_NAME_LEN - 1)
       IN IF is_char_boundary(full, cut)
            THEN [panic |-> FALSE, key |-> Take(full, cut)]
            ELSE [panic |-> TRUE, key |-> <<>>]

\* ------------------------------------------------ the key-derivation inputs

Fill(unit, n) == [i \in 1..(n * Len(unit)) |-> unit[((i - 1) % Len(unit)) + 1]]

\* "a" and "é"
UnitA == <<97>>
UnitE == <<195, 169>>

KeySubjects ==
  { StrCN \o UnitA,                                   \* "CN=a"
    <<79, 61, 120, 44>> \o StrCN \o UnitA \o <<44, 67, 61, 85, 83>>,  \* "O=x,CN=a,C=US"
    StrOU \o UnitA,                                   \* "OU=a"
    UnitA \o UnitA,                                   \* "aa": no marker
    Fill(UnitA, MaxFill),                             \* a long subject without a marker
    <<255>> \o StrCN \o UnitA,                        \* not UTF-8
    <<255>> \o UnitA,                                 \* not UTF-8, no marker
    StrCN \o Fill(UnitA, MaxFill),                    \* a long ASCII label
    StrCN \o Fill(UnitA, MaxFill - 12),               \* a label the suffix overflows
    StrCN \o UnitA \o Fill(UnitE, MaxFill \div 2) }   \* a long label of two-byte characters

KeySpkis ==
  { <<48, 130, 1, 34, 48, 13, 1, 35, 3, 4>>,
    <<49, 130, 1, 34, 48, 13, 1, 35, 3, 4>>,          \* differs at byte 0 only
    <<48, 130, 1, 34, 48, 13, 18, 3, 3, 4>>,          \* bytes 6..9 differ, same digits
    <<48, 130, 1, 34, 48, 13, 171, 205, 239, 0>>,
    <<48, 130, 1>> }                                  \* shorter than 10 bytes

KeyAnchors ==
  {[subject |-> s, spki |-> k, name_constraints |-> None] : s \in KeySubjects, k \in KeySpkis}

InitKey ==
  /\ dict = FALSE
  /\ files = EmptyFiles
  /\ last = NoCall
  /\ saved = [clean |-> TRUE, keys |-> {}]
  /\ wf = NoRun
  /\ hist = NoHist
  /\ \E a \in KeyAnchors, b \in KeyAnchors :
       pair = [a |-> a, b |-> b, ka |-> None, kb |-> None]

DeriveKeys ==
  /\ pair.ka = None
  /\ pair' = [pair EXCEPT !.ka = Some(pddb_key(pair.a)), !.kb = Some(pddb_key(pair.b))]
  /\ UNCHANGED <<dict, files, last, saved, wf, hist>>

NextKey == DeriveKeys

SpecKey == InitKey /\ [][NextKey]_vars

\* C5: two records whose subjects yield the same label and whose spki differ
\* get different keys from pddb_key(), and the keys differ in the hexadecimal
\* suffix of spki bytes 6 to 9.
C5_DistinctKeys ==
  (/\ pair.ka # None
   /\ ~pair.ka[1].panic /\ ~pair.kb[1].panic
   /\ marker(pair.a) >= 0 /\ marker(pair.b) >= 0
   /\ label(pair.a) = label(pair.b)
   /\ pair.a.spki # pair.b.spki)
    => (pair.ka[1].key # pair.kb[1].key /\ suffix(pair.a.spki) # suffix(pair.b.spki))

\* C6: for every record, however long its subject and whatever its spki,
\* pddb_key() returns a key of at most 94 = 127 - 8 - 8 - 8 - 4 - 4 - 1 bytes.
C6_KeyWithinBudget ==
  pair.ka # None
    => (~pair.ka[1].panic /\ Len(pair.ka[1].key) <= 127 - 8 - 8 - 8 - 4 - 4 - 1)

\* neither "CN=" nor "OU=" occurs in the bytes
NoMarkerIn(bytes) == find(bytes, StrCN) < 0 /\ find(bytes, StrOU) < 0

\* the key made of a label, the suffix of the spki and the cut to the budget
KeyOfLabel(lbl, spki) == Take(lbl \o suffix(spki), 127 - 8 - 8 - 8 - 4 - 4 - 1)

\* C12 as stated: when a record's subject bytes are not valid UTF-8, or are
\* valid UTF-8 containing neither "CN=" nor "OU=", the label part of the key
\* returned by pddb_key() is the raw subject byte sequence itself (followed by
\* the space and hexadecimal suffix, then cut to the length budget).
C12_RawSubjectLabel ==
  (/\ pair.ka # None /\ ~pair.ka[1].panic
   /\ (~valid_utf8(pair.a.subject) \/ NoMarkerIn(pair.a.subject)))
    => pair.ka[1].key = KeyOfLabel(pair.a.subject, pair.a.spki)

\* C12 amended: when a record's subject bytes are not valid UTF-8, the label
\* part of the key returned by pddb_key() is empty, whatever the bytes hold;
\* when they are valid UTF-8 containing neither "CN=" nor "OU=", the label is
\* the subject itself (in both cases followed by the space and hexadecimal
\* suffix, then cut to the length budget).
C12_FallbackLabel ==
  (pair.ka # None /\ ~pair.ka[1].panic)
    => /\ ~valid_utf8(pair.a.subject)
            => pair.ka[1].key = KeyOfLabel(<<>>, pair.a.spki)
       /\ (valid_utf8(pair.a.subject) /\ NoMarkerIn(pair.a.subject))
            => pair.ka[1].key = KeyOfLabel(pair.a.subject, pair.a.spki)

\* both fallbacks happen: a subject that is not UTF-8 and holds "CN=", and a
\* UTF-8 subject without a marker that is cut to the budget
C12_Witness ==
  /\ pair.ka # None /\ ~pair.ka[1].panic /\ ~pair.kb[1].panic
  /\ ~valid_utf8(pair.a.subject) /\ ~NoMarkerIn(pair.a.subject)
  /\ pair.ka[1].key = suffix(pair.a.spki)
  /\ valid_utf8(pair.b.subject) /\ NoMarkerIn(pair.b.subject)
  /\ Len(pair.b.subject \o suffix(pair.b.spki)) > Len(pair.kb[1].key)
  /\ pair.kb[1].key = Take(pair.b.subject, 127 - 8 - 8 - 8 - 4 - 4 - 1)

\* ------------------------------------------------------------- check_trust

\* A candidate as the certificate parser reports it: whether it parses, its CA
\* flag, its raw serial, raw subject and raw SPKI, and its decoded subject
Unparsable ==
  [parses |-> FALSE, ca |-> FALSE, serial |-> <<>>, subject |-> <<>>, spki |-> <<>>,
   name |-> <<>>]

Cert(ca, serial, tag) ==
  [parses |-> TRUE, ca |-> ca, serial |-> serial,
   subject |-> <<48, 3, tag>>, spki |-> <<48, 130, 1, 34, 48, 13, 6, 9, 42, tag>>,
   name |-> StrCN \o <<tag>>]

\* unparsable bytes, a leaf, two CAs with nine-byte serials and a CA whose
\* serial is a single byte
Candidates ==
  { Unparsable,
    Cert(FALSE, <<0, 1, 2, 3, 4, 5, 6, 7, 76>>, 76),
    Cert(TRUE, <<0, 1, 2, 3, 4, 5, 6, 7, 171>>, 65),
    Cert(TRUE, <<0, 1, 2, 3, 4, 5, 6, 7, 205>>, 66),
    Cert(TRUE, <<1>>, 67) }

LowerHexDigit(d) == IF d < 10 THEN 48 + d ELSE 87 + d

\* X509Certificate::raw_serial_as_string: two lower-case hex digits per byte,
\* joined by colons
RECURSIVE raw_serial_as_string(_)
raw_serial_as_string(serial) ==
  IF Len(serial) = 0 THEN <<>>
  ELSE <<LowerHexDigit(serial[1] \div 16), LowerHexDigit(serial[1] % 16)>>
       \o (IF Len(serial) = 1 THEN <<>> ELSE <<58>> \o raw_serial_as_string(Drop(serial, 1)))

\* the filter that keeps every certificate that parses
parsed_only(certs) == SelectSeq(certs, LAMBDA c : c.parses)

\* the parsed certificates with the CA flag set, in input order
ca_certificates(certs) == SelectSeq(certs, LAMBDA c : c.parses /\ c.ca)

\* From<&X509Certificate> for OwnedTrustAnchor
anchor_of(x509) == [subject |-> x509.subject, spki |-> x509.spki, name_constraints |-> None]

\* the authority marker and a space; a line feed
StrMarker == <<240, 159, 143, 155, 32>>
StrLF == <<10>>

\* One line of the checklist; slicing the serial text at 24 panics when the
\* text is shorter
chain_line(x509) ==
  LET text == raw_serial_as_string(x509.serial)
  IN IF Len(text) < 24 THEN [panic |-> TRUE, line |-> <<>>]
     ELSE [panic |-> FALSE,
           line |-> (IF x509.ca THEN StrMarker ELSE <<>>) \o x509.name \o StrLF
                    \o Slice(text, 0, 24) \o StrLF \o Drop(text, 24)]

\* "failed to save: "
StrFailed == <<102, 97, 105, 108, 101, 100, 32, 116, 111, 32, 115, 97, 118, 101, 58, 32>>

\* the key the other scheme would give: the pddb_key of the record
save_key_pddb(x509) == pddb_key(anchor_of(x509)).key

\* the key a selected certificate is saved under: its serial text
save_key(x509) == raw_serial_as_string(x509.serial)

\* a loop that gives up at the first save that fails
RECURSIVE save_selected_stop(_, _, _, _)
save_selected_stop(st, certificates, sel, ios) ==
  IF Len(sel) = 0 THEN [st |-> st, attempts |-> <<>>, notes |-> <<>>]
  ELSE LET x509 == certificates[sel[1] + 1]
           key  == save_key(x509)
           val  == anchor_of(x509)
           r    == save_cert(st, key, val, ios[1])
           rest == IF r.ret = "Ok"
                     THEN save_selected_stop(r.st, certificates, Drop(sel, 1), Drop(ios, 1))
                     ELSE [st |-> r.st, attempts |-> <<>>, notes |-> <<>>]
       IN [st |-> rest.st,
           attempts |-> <<[index |-> sel[1], key |-> key, ta |-> val, ret |-> r.ret]>>
                        \o rest.attempts,
           notes |-> (IF r.ret = "Ok" THEN <<>> ELSE <<StrFailed \o x509.name>>)
                     \o rest.notes]

\* The for_each over the selected indices: each selected certificate is saved
\* under its serial text; a failed save is notified and the loop goes on.
\* sel holds 0-based indices into certificates; ios the outcome of each write.
RECURSIVE save_selected(_, _, _, _)
save_selected(st, certificates, sel, ios) ==
  IF Len(sel) = 0 THEN [st |-> st, attempts |-> <<>>, notes |-> <<>>]
  ELSE LET x509 == certificates[sel[1] + 1]
           key  == save_key(x509)
           val  == anchor_of(x509)
           r    == save_cert(st, key, val, ios[1])
           rest == save_selected(r.st, certificates, Drop(sel, 1), Drop(ios, 1))
       IN [st |-> rest.st,
           attempts |-> <<[index |-> sel[1], key |-> key, ta |-> val, ret |-> r.ret]>>
                        \o rest.attempts,
           notes |-> (IF r.ret = "Ok" THEN <<>> ELSE <<StrFailed \o x509.name>>)
                     \o rest.notes]

\* a count of the saves that succeeded
count_saved(trusted, attempts) == Len(SelectSeq(attempts, LAMBDA a : a.ret = "Ok"))

\* the value check_trust returns after the saves: trusted.len()
count_trusted(trusted, attempts) == Len(trusted)

\* a failed prompt answered with the number of certificates offered
checkbox_failed_all(st, certificates) ==
  [st |-> st, attempts |-> <<>>, notes |-> <<>>, ret |-> Len(certificates)]

\* the `_` arm of the match on get_checkbox: nothing is saved, 0 is returned
checkbox_failed(st, certificates) ==
  [st |-> st, attempts |-> <<>>, notes |-> <<>>, ret |-> 0]

\* check_trust(certificates).  ui is what get_checkbox/get_check_index give:
\* an error, or the selected 0-based indices; ios the outcome of each write.
check_trust(st, certs, ui, ios) ==
  LET certificates == ca_certificates(certs)
      lines == [i \in 1..Len(certificates) |-> chain_line(certificates[i])]
      base  == [NoRun EXCEPT !.ran = TRUE, !.certs = certs]
  IN IF \E i \in 1..Len(lines) : lines[i].panic
       THEN [st |-> st, wf |-> [base EXCEPT !.panic = TRUE]]
       ELSE LET chain == [i \in 1..Len(lines) |-> lines[i].line]
                shown == [base EXCEPT !.shown = Some(chain)]
            IN IF ui.err
                 THEN LET r == checkbox_failed(st, certificates)
                      IN [st |-> r.st,
                          wf |-> [shown EXCEPT !.uiErr = TRUE, !.attempts = r.attempts,
                                               !.notes = r.notes, !.ret = r.ret]]
                 ELSE LET trusted == [i \in 1..Len(ui.sel) |-> chain[ui.sel[i] + 1]]
                          r == save_selected(st, certificates, ui.sel, ios)
                      IN [st |-> r.st,
                          wf |-> [shown EXCEPT !.sel = ui.sel, !.attempts = r.attempts,
                                               !.notes = r.notes,
                                               !.ret = count_trusted(trusted, r.attempts)]]

\* ------------------------------------------------ the workflow specification

\* The lists of at most n candidates
RECURSIVE CertLists(_)
CertLists(n) ==
  IF n = 0 THEN {<<>>}
  ELSE CertLists(n - 1) \cup {Append(l, c) : l \in {x \in CertLists(n - 1) : Len(x) = n - 1},
                                              c \in Candidates}

\* The sequences of distinct 0-based indices below n
RECURSIVE Selections(_, _)
Selections(n, len) ==
  IF len = 0 THEN {<<>>}
  ELSE Selections(n, len - 1)
       \cup {Append(s, i) : s \in {x \in Selections(n, len - 1) : Len(x) = len - 1},
                            i \in 0..(n - 1)}

\* What the prompt can give for a checklist of n lines
UiOutcomes(n) ==
  {[err |-> TRUE, sel |-> <<>>]}
    \cup {[err |-> FALSE, sel |-> s] :
            s \in {x \in Selections(n, n) : \A i, j \in 1..Len(x) : i # j => x[i] # x[j]}}

\* The stores a run starts from: no dictionary, or a dictionary holding what
\* an earlier save_cert of the first CA (under its serial text) or of another
\* record (under "k1") has written
TrustStores ==
  LET empty == [dict |-> FALSE, files |-> EmptyFiles]
      ca    == Cert(TRUE, <<0, 1, 2, 3, 4, 5, 6, 7, 171>>, 65)
  IN { empty,
       save_cert(empty, raw_serial_as_string(ca.serial), anchor_of(ca), IoOk).st,
       save_cert(empty, <<107, 49>>, NoAnchor, IoOk).st }

InitTrust ==
  /\ \E st \in TrustStores : dict = st.dict /\ files = st.files
  /\ last = NoCall
  /\ saved = [clean |-> TRUE, keys |-> {}]
  /\ pair = NoPair
  /\ wf = NoRun
  /\ hist = NoHist

\* One run of check_trust per behaviour
CheckTrust(certs, ui, ios) ==
  \E r \in {check_trust(Store, certs, ui, ios)} :
     /\ dict' = r.st.dict
     /\ files' = r.st.files
     /\ wf' = r.wf
     /\ UNCHANGED <<last, saved, pair, hist>>

NextTrust ==
  /\ ~wf.ran
  /\ \E certs \in CertLists(MaxCerts) :
      \E ui \in UiOutcomes(Len(ca_certificates(certs))) :
        \E ios \in [1..Len(ui.sel) -> IoOutcomes] :
          CheckTrust(certs, ui, ios)

SpecTrust == InitTrust /\ [][NextTrust]_vars

\* ------------------------------------------------------ claims on check_trust

\* C7: the checklist presented to the user holds exactly one line per
\* candidate that parses as a certificate with the CA flag set, in input
\* order; unparsable candidates and parsed non-CA certificates never appear.
C7_ChecklistIsCAs ==
  wf.shown # None
    => LET cas == SelectSeq(wf.certs, LAMBDA c : c.parses /\ c.ca)
           shown == wf.shown[1]
       IN /\ Len(shown) = Len(cas)
          /\ \A i \in 1..Len(cas) : shown[i] = chain_line(cas[i]).line
          /\ \A i \in 1..Len(wf.certs) :
               (wf.certs[i].parses /\ ~wf.certs[i].ca)
                 => \A j \in 1..Len(shown) : shown[j] # chain_line(wf.certs[i]).line

C7_Witness ==
  /\ wf.shown # None
  /\ Len(wf.shown[1]) = 1
  /\ Len(wf.certs) = 2
  /\ wf.certs[1].parses /\ ~wf.certs[1].ca
  /\ wf.certs[2].parses /\ wf.certs[2].ca

FailedAttempts == {i \in 1..Len(wf.attempts) : wf.attempts[i].ret # "Ok"}

\* C8: when the UI returns a selection of N candidates, check_trust returns N
\* however many of the N saves succeed; with exactly one failed save it is N,
\* not N - 1.
C8_ReturnsSelected ==
  (wf.shown # None /\ ~wf.uiErr)
    => (~wf.panic /\ Len(wf.attempts) = Len(wf.sel) /\ wf.ret = Len(wf.sel))

C8_Witness ==
  /\ wf.shown # None /\ ~wf.uiErr
  /\ Len(wf.sel) = 2
  /\ Cardinality(FailedAttempts) = 1
  /\ wf.ret = 2

\* C9: when the UI reports an error for the checklist prompt, check_trust
\* returns 0 and calls save for nothing, so the store is the same after the
\* workflow as before it.
C9_UiErrorNoEffect ==
  [][(wf' # wf /\ wf'.uiErr)
       => (wf'.ret = 0 /\ wf'.attempts = <<>> /\ dict' = dict /\ files' = files)]_vars

C9_Witness ==
  /\ wf.uiErr
  /\ wf.ret = 0
  /\ Len(wf.shown[1]) = 2
  /\ DOMAIN files # {}

\* the CA certificates among the candidates of the run, in input order
RunCAs == SelectSeq(wf.certs, LAMBDA c : c.parses /\ c.ca)

\* the positions of the run's attempts whose save failed, in order
FailedPositions ==
  SelectSeq([i \in 1..Len(wf.attempts) |-> i], LAMBDA i : wf.attempts[i].ret # "Ok")

\* C14: when the save of a selected anchor fails, a notification naming that
\* anchor is shown and the saves of the anchors selected after it are still
\* attempted; every selected anchor has its save attempted exactly once, in
\* selection order.
C14_FailedSaveContinues ==
  (wf.shown # None /\ ~wf.uiErr)
    => /\ Len(wf.attempts) = Len(wf.sel)
       /\ \A i \in 1..Len(wf.sel) :
            /\ wf.attempts[i].index = wf.sel[i]
            /\ wf.attempts[i].key = raw_serial_as_string(RunCAs[wf.sel[i] + 1].serial)
       /\ wf.notes = [j \in 1..Len(FailedPositions) |->
                        StrFailed \o RunCAs[wf.sel[FailedPositions[j]] + 1].name]

\* the first of two selected anchors fails to save, the second is saved
C14_Witness ==
  /\ wf.shown # None /\ ~wf.uiErr
  /\ Len(wf.sel) = 2 /\ Len(wf.attempts) = 2
  /\ wf.attempts[1].ret = "IoError"
  /\ wf.attempts[2].ret = "Ok"
  /\ wf.attempts[2].key \in DOMAIN files
  /\ Len(wf.notes) = 1

\* C15: for each index i the user selects, the record saved is built from the
\* i-th certificate of the filtered CA list (not the i-th input candidate),
\* holds that certificate's raw subject and SPKI with name_constraints absent,
\* and is saved under that certificate's serial text, not under the pddb_key()
\* of the record; a save that succeeds, with no later save under the same
\* key, leaves that record under that key.
C15_SavedUnderSerial ==
  (wf.shown # None /\ ~wf.uiErr)
    => /\ Len(wf.attempts) = Len(wf.sel)
       /\ \A i \in 1..Len(wf.sel) :
            LET c == RunCAs[wf.sel[i] + 1]
                a == wf.attempts[i]
            IN /\ a.ta = [subject |-> c.subject, spki |-> c.spki, name_constraints |-> None]
               /\ a.key = raw_serial_as_string(c.serial)
               /\ a.key # pddb_key(a.ta).key
               /\ (a.ret = "Ok" /\ \A j \in (i + 1)..Len(wf.attempts) : wf.attempts[j].key # a.key)
                    => /\ a.key \in DOMAIN files
                       /\ \A ub \in UbOutcomes({NoAnchor}) :
                            get_cert(Store, a.key, ub).val = Some(a.ta)

\* the list is a leaf followed by a CA, the user selects line 0, and the CA
\* (the second candidate) is what gets saved
C15_Witness ==
  /\ wf.shown # None /\ ~wf.uiErr
  /\ Len(wf.certs) = 2 /\ wf.certs[1].parses /\ ~wf.certs[1].ca
  /\ wf.sel = <<0>>
  /\ wf.attempts[1].ret = "Ok"
  /\ wf.attempts[1].ta.subject = wf.certs[2].subject
  /\ wf.attempts[1].ta.subject # wf.certs[1].subject
  /\ wf.attempts[1].key = raw_serial_as_string(wf.certs[2].serial)
  /\ wf.attempts[1].key \in DOMAIN files

\* C16: for every CA candidate, whatever the length of its serial text,
\* check_trust renders a line made of the authority marker, the decoded
\* subject, the first 24 characters of the serial text and the rest of the
\* serial text on a further line, and goes on to present the checklist.
C16_EverySerialRenders ==
  wf.ran
    => /\ ~wf.panic
       /\ wf.shown # None
       /\ Len(wf.shown[1]) = Len(RunCAs)
       /\ \A i \in 1..Len(RunCAs) :
            LET text == raw_serial_as_string(RunCAs[i].serial)
            IN wf.shown[1][i] = StrMarker \o RunCAs[i].name \o StrLF
                                 \o Take(text, 24) \o StrLF \o Drop(text, 24)

====
